---------------------------- MODULE Spec2Model ----------------------------
(***************************************************************************)
(* A model of ruptime (src/src/main.rs): main and the four functions it    *)
(* calls, get_uptime, build_uptime_string, get_loadavg and get_no_users.   *)
(*                                                                         *)
(* Text is a sequence of one-character strings, a byte buffer a sequence   *)
(* of numbers in 0..255 (buf[k] of the source is buf[k + 1] here).  A      *)
(* natural number too large for a 32-bit integer of TLC is written as a    *)
(* sequence of decimal digits without leading zeros (<< >> is 0).          *)
(***************************************************************************)
EXTENDS Integers, Sequences, FiniteSets, TLC

VARIABLES
    pc,           \* the place the invocation (or the function under study) is at
    args,         \* env::args() without the program name
    read_data,    \* the text handed to get_uptime / get_loadavg
    uptime,       \* what get_uptime gave: Ok(Duration), Err, or a panic
    kind,         \* the UptimeFormat handed to build_uptime_string
    elapsed,      \* build_uptime_string's locals days, hours, minutes
    uptime_str,   \* build_uptime_string's result
    loadavg_str,  \* get_loadavg's result
    buf,          \* the bytes handed to get_no_users
    i,            \* get_no_users' loop index
    count,        \* get_no_users' counter
    reads,        \* the indices of buf read so far (0-based)
    no_users,     \* get_no_users' result
    stdout,       \* the lines printed so far
    io,           \* the outcome of the last read or open: "none", "ok" or what failed
    exit          \* "running", "ok", "err" (main returned Err) or "panic"

vars == << pc, args, read_data, uptime, kind, elapsed, uptime_str, loadavg_str,
           buf, i, count, reads, no_users, stdout, io, exit >>

(***************************************************************************)
(* Bounds of the model.                                                    *)
(***************************************************************************)
MaxChunks == 2      \* full utmp records in a buffer
MaxLen == 4         \* characters of an exhaustively enumerated uptime text
MaxLoadLen == 6     \* characters of an exhaustively enumerated loadavg text
MaxDays == 2        \* days of an enumerated Duration
MaxArgs == 2        \* command line arguments after the program name

None == "None"

\* A result not there yet.
NotYet == [tag |-> "None"]

(***************************************************************************)
(* Sequences and text.                                                     *)
(***************************************************************************)
RECURSIVE Flatten(_)
Flatten(ss) == IF ss = << >> THEN << >> ELSE Head(ss) \o Flatten(Tail(ss))

Repeat(x, n) == IF n <= 0 THEN << >> ELSE [k \in 1..n |-> x]

\* All sequences over S of length exactly n, and of length at most n.
RECURSIVE SeqsOfLen(_, _)
SeqsOfLen(S, n) ==
    IF n = 0 THEN { << >> }
    ELSE { << x >> \o s : x \in S, s \in SeqsOfLen(S, n - 1) }

SeqsUpTo(S, n) == UNION { SeqsOfLen(S, k) : k \in 0..n }

DigitChars == << "0", "1", "2", "3", "4", "5", "6", "7", "8", "9" >>

IsDigit(c) == \E d \in 1..10 : DigitChars[d] = c

DigitVal(c) == (CHOOSE d \in 1..10 : DigitChars[d] = c) - 1

\* "{}" of a non-negative integer.
RECURSIVE ToDecNat(_)
ToDecNat(n) ==
    IF n < 10 THEN << DigitChars[n + 1] >>
    ELSE ToDecNat(n \div 10) \o << DigitChars[(n % 10) + 1] >>

\* "{}" of an i64.
ToDec(n) == IF n < 0 THEN << "-" >> \o ToDecNat(-n) ELSE ToDecNat(n)

\* "{:0>2}": padded on the left with '0' to a width of at least 2.
Pad2(s) == Repeat("0", 2 - Len(s)) \o s

\* char::is_whitespace, on the characters the model uses.
IsWhitespace(c) == c \in { " ", "\t", "\n" }

\* str::split_whitespace: the maximal runs of non-whitespace, in order.
RECURSIVE SplitFrom(_, _, _)
SplitFrom(s, k, cur) ==
    IF k > Len(s)
    THEN (IF cur = << >> THEN << >> ELSE << cur >>)
    ELSE IF IsWhitespace(s[k])
         THEN (IF cur = << >> THEN << >> ELSE << cur >>) \o SplitFrom(s, k + 1, << >>)
         ELSE SplitFrom(s, k + 1, Append(cur, s[k]))

\* str::split(' '): a token, possibly empty, between any two spaces.
RECURSIVE SplitSpaceFrom(_, _, _)
SplitSpaceFrom(s, k, cur) ==
    IF k > Len(s) THEN << cur >>
    ELSE IF s[k] = " " THEN << cur >> \o SplitSpaceFrom(s, k + 1, << >>)
    ELSE SplitSpaceFrom(s, k + 1, Append(cur, s[k]))

split_single_space(s) == SplitSpaceFrom(s, 1, << >>)

split_whitespace(s) == SplitFrom(s, 1, << >>)

\* Iterator::take
take(ts, n) == SubSeq(ts, 1, IF Len(ts) < n THEN Len(ts) ELSE n)

(***************************************************************************)
(* get_no_users                                                            *)
(***************************************************************************)
UTMP_SIZE == 384

USER_PROCESS == 7

\* A loop bound that also visits a trailing partial record.
NumChunksCeil(b) == (Len(b) + UTMP_SIZE - 1) \div UTMP_SIZE

\* buf.len() / UTMP_SIZE, the end of the loop's range
NumChunks(b) == Len(b) \div UTMP_SIZE

\* if count > 1 { "{} users" } else { "{} user" }
FormatUsers(n) ==
    IF n > 1
    THEN ToDec(n) \o << " ", "u", "s", "e", "r", "s" >>
    ELSE ToDec(n) \o << " ", "u", "s", "e", "r" >>

\* One iteration of the for loop: buf[i * UTMP_SIZE] is read, with the bounds
\* check of slice indexing (a panic when the index is not below buf.len()).
LoopStep ==
    /\ pc = "users_loop"
    /\ i < NumChunks(buf)
    /\ reads' = reads \cup { i * UTMP_SIZE }
    /\ IF i * UTMP_SIZE >= Len(buf)
       THEN /\ pc' = "panic"
            /\ exit' = "panic"
            /\ UNCHANGED << i, count, io >>
       ELSE /\ count' = IF buf[i * UTMP_SIZE + 1] = USER_PROCESS THEN count + 1 ELSE count
            /\ i' = i + 1
            /\ UNCHANGED << pc, exit, io >>
    /\ UNCHANGED << args, read_data, uptime, kind, elapsed, uptime_str, loadavg_str,
                    buf, no_users, stdout, io >>

\* The range is exhausted: the count is rendered and the function returns.
LoopExit ==
    /\ pc = "users_loop"
    /\ i >= NumChunks(buf)
    /\ no_users' = FormatUsers(count)
    /\ pc' = "print"
    /\ UNCHANGED << args, read_data, uptime, kind, elapsed, uptime_str, loadavg_str,
                    buf, i, count, reads, stdout, exit, io >>

\* One record-sized stretch of bytes: a type byte and a filler for the rest.
Chunk(tag, fill, n) == IF n = 0 THEN << >> ELSE << tag >> \o Repeat(fill, n - 1)

TagValues == { 0, 6, USER_PROCESS }

FillValues == { 0, USER_PROCESS }

TailLengths == { 0, 1, 16, UTMP_SIZE - 1 }

\* The buffers get_no_users is studied on: up to MaxChunks full records and a
\* trailing partial one.
Buffers ==
    UNION { { Flatten([k \in 1..n |-> Chunk(tg[k], fl[k], UTMP_SIZE)])
                \o Chunk(ttag, tfill, r) :
              tg \in [1..n -> TagValues], fl \in [1..n -> FillValues],
              ttag \in TagValues, tfill \in FillValues } :
            n \in 0..MaxChunks, r \in TailLengths }

InitUsers ==
    /\ pc = "users_loop"
    /\ buf \in Buffers
    /\ i = 0
    /\ count = 0
    /\ reads = {}
    /\ no_users = << >>
    /\ args = << >>
    /\ read_data = << >>
    /\ uptime = NotYet
    /\ kind = None
    /\ elapsed = None
    /\ uptime_str = << >>
    /\ loadavg_str = NotYet
    /\ stdout = << >>
    /\ io = "none"
    /\ exit = "running"

NextUsers == LoopStep \/ LoopExit

SpecUsers == InitUsers /\ [][NextUsers]_vars

(***************************************************************************)
(* Natural numbers as digit sequences, and chrono's Duration.              *)
(***************************************************************************)
\* The digits of a machine-sized natural number (<< >> for 0).
RECURSIVE NatDigits(_)
NatDigits(n) == IF n = 0 THEN << >> ELSE Append(NatDigits(n \div 10), n % 10)

\* The machine-sized number a digit sequence denotes.
RECURSIVE DigitsNat(_)
DigitsNat(ds) ==
    IF ds = << >> THEN 0 ELSE DigitsNat(SubSeq(ds, 1, Len(ds) - 1)) * 10 + ds[Len(ds)]

\* An i64 as sign and magnitude.
Signed(neg, mag) == [neg |-> neg /\ mag # << >>, mag |-> mag]

FromInt(n) == IF n < 0 THEN Signed(TRUE, NatDigits(-n)) ELSE Signed(FALSE, NatDigits(n))

ToInt(v) == IF v.neg THEN -DigitsNat(v.mag) ELSE DigitsNat(v.mag)

Ok(v) == [tag |-> "Ok", secs |-> v]

Err == [tag |-> "Err"]

Panic == [tag |-> "Panic"]

\* A String returned.
Returned(str) == [tag |-> "Ok", str |-> str]

\* i64 division, which truncates toward zero (b > 0).
TruncDiv(a, b) == IF a >= 0 THEN a \div b ELSE -((-a) \div b)

\* Duration::num_seconds of a Duration of whole seconds.
num_seconds(d) == ToInt(d.secs)

\* Duration::num_minutes, num_hours, num_days: num_seconds divided by the unit.
num_minutes(d) == TruncDiv(num_seconds(d), 60)

num_hours(d) == TruncDiv(num_seconds(d), 3600)

num_days(d) == TruncDiv(num_seconds(d), 86400)

\* Duration::days and Duration::hours.
Duration_days(n) == Ok(FromInt(n * 86400))

Duration_hours(n) == Ok(FromInt(n * 3600))

(***************************************************************************)
(* build_uptime_string                                                     *)
(***************************************************************************)
Normal == "Normal"

Pretty == "Pretty"

\* let days = uptime.num_days();
Days(u) == num_days(u)

\* Hours taken from the whole Duration, the days not subtracted.
HoursNotReduced(u) == num_hours(u)

\* let hours = uptime.num_hours() - Duration::days(days).num_hours();
Hours(u) == num_hours(u) - num_hours(Duration_days(Days(u)))

\* let minutes = uptime.num_minutes() - Duration::hours(hours).num_minutes()
\*     - Duration::days(days).num_minutes();
Minutes(u) ==
    num_minutes(u) - num_minutes(Duration_hours(Hours(u)))
        - num_minutes(Duration_days(Days(u)))

Locals(u) == [days |-> Days(u), hours |-> Hours(u), minutes |-> Minutes(u)]

\* if days > 0 { "{} " then "day, " or "days, " }
DaysPrefix(days) ==
    IF days > 0
    THEN ToDec(days) \o << " " >>
            \o (IF days = 1 THEN << "d", "a", "y", ",", " " >>
                ELSE << "d", "a", "y", "s", ",", " " >>)
    ELSE << >>

\* The Normal phrase with the minutes written without padding.
NormalPhraseUnpadded(hours, minutes) ==
    IF hours = 0
    THEN ToDec(minutes) \o << " ", "m", "i", "n" >>
    ELSE ToDec(hours) \o << ":" >> \o ToDec(minutes)

\* format!("{} min", minutes) or format!("{}:{:0>2}", hours, minutes)
NormalPhrase(hours, minutes) ==
    IF hours = 0
    THEN ToDec(minutes) \o << " ", "m", "i", "n" >>
    ELSE ToDec(hours) \o << ":" >> \o Pad2(ToDec(minutes))

\* format!("{} minutes", minutes) or format!("{} hours, {} minutes", hours, minutes)
PrettyPhrase(hours, minutes) ==
    IF hours = 0
    THEN ToDec(minutes) \o << " ", "m", "i", "n", "u", "t", "e", "s" >>
    ELSE ToDec(hours) \o << " ", "h", "o", "u", "r", "s", ",", " " >>
            \o ToDec(minutes) \o << " ", "m", "i", "n", "u", "t", "e", "s" >>

build_uptime_string(u, k) ==
    LET l == Locals(u)
    IN  DaysPrefix(l.days)
            \o (IF k = Normal THEN NormalPhrase(l.hours, l.minutes)
                ELSE PrettyPhrase(l.hours, l.minutes))

\* The function applied to a Duration and a format.
CallBuildUptimeString ==
    /\ pc = "build_uptime_string"
    /\ elapsed' = Locals(uptime)
    /\ uptime_str' = build_uptime_string(uptime, kind)
    /\ pc' = "returned"
    /\ UNCHANGED << args, read_data, uptime, kind, loadavg_str, buf, i, count, reads,
                    no_users, stdout, exit, io >>

\* The Durations build_uptime_string is studied on: every hour and minute of
\* days 0..MaxDays, at the first and the last second of the minute.
Totals ==
    { d * 86400 + h * 3600 + m * 60 + s :
        d \in 0..MaxDays, h \in 0..23, m \in 0..59, s \in { 0, 59 } }

InitFormat ==
    /\ pc = "build_uptime_string"
    /\ \E t \in Totals : uptime = Ok(FromInt(t))
    /\ kind \in { Normal, Pretty }
    /\ elapsed = None
    /\ uptime_str = << >>
    /\ args = << >>
    /\ read_data = << >>
    /\ loadavg_str = NotYet
    /\ buf = << >>
    /\ i = 0
    /\ count = 0
    /\ reads = {}
    /\ no_users = << >>
    /\ stdout = << >>
    /\ io = "none"
    /\ exit = "running"

NextFormat == CallBuildUptimeString

SpecFormat == InitFormat /\ [][NextFormat]_vars

(***************************************************************************)
(* Arithmetic on digit sequences.                                          *)
(***************************************************************************)
RECURSIVE Strip(_)
Strip(ds) == IF ds # << >> /\ ds[1] = 0 THEN Strip(Tail(ds)) ELSE ds

RECURSIVE LexLess(_, _)
LexLess(a, b) ==
    /\ a # << >>
    /\ \/ a[1] < b[1]
       \/ a[1] = b[1] /\ LexLess(Tail(a), Tail(b))

\* a < b and a <= b, for digit sequences without leading zeros.
BigLess(a, b) == Len(a) < Len(b) \/ (Len(a) = Len(b) /\ LexLess(a, b))

BigLeq(x, y) == ~BigLess(y, x)

BigOdd(ds) == ds # << >> /\ ds[Len(ds)] % 2 = 1

RECURSIVE HalfFrom(_, _)
HalfFrom(ds, carry) ==
    IF ds = << >> THEN << >>
    ELSE << (carry * 10 + ds[1]) \div 2 >> \o HalfFrom(Tail(ds), ds[1] % 2)

\* floor(n / 2)
BigHalf(ds) == Strip(HalfFrom(ds, 0))

\* The digits of 2 * ds + carry.
RECURSIVE DoubleFrom(_, _)
DoubleFrom(ds, carry) ==
    IF ds = << >> THEN (IF carry = 0 THEN << >> ELSE << carry >>)
    ELSE LET v == 2 * ds[Len(ds)] + carry
         IN  Append(DoubleFrom(SubSeq(ds, 1, Len(ds) - 1), v \div 10), v % 10)

\* n + 1
BigInc(ds) == DoubleFrom(BigHalf(ds), IF BigOdd(ds) THEN 2 ELSE 1)

\* The digits of ds * m + carry, for a machine-sized m.
RECURSIVE MulFrom(_, _, _)
MulFrom(ds, m, carry) ==
    IF ds = << >> THEN NatDigits(carry)
    ELSE LET v == ds[Len(ds)] * m + carry
         IN  Append(MulFrom(SubSeq(ds, 1, Len(ds) - 1), m, v \div 10), v % 10)

\* n * 2^k
RECURSIVE BigMulPow2(_, _)
BigMulPow2(ds, k) ==
    IF ds = << >> THEN << >>
    ELSE IF k <= 20 THEN MulFrom(ds, 2 ^ k, 0)
    ELSE BigMulPow2(MulFrom(ds, 2 ^ 20, 0), k - 20)

Pow2(k) == BigMulPow2(<< 1 >>, k)

Pow10(k) == << 1 >> \o Repeat(0, k)

Pow2Table == [k \in 0..64 |-> Pow2(k)]

\* The number of bits of n < 2^64 (0 for 0).
BitLen(ds) == Cardinality({ k \in 0..63 : BigLeq(Pow2Table[k], ds) })

\* 10^Len(F) - F, for a fraction's digits F (leading zeros allowed).
Complement(F) == BigInc(Strip([k \in 1..Len(F) |-> 9 - F[k]]))

(***************************************************************************)
(* str::parse::<f64>, `as i64` and Duration::seconds (main.rs lines 111    *)
(* and 113).  The parse is correctly rounded (to the nearest double, ties  *)
(* to even); the cast truncates toward zero, saturates and maps NaN to 0;  *)
(* Duration::seconds panics beyond i64::MAX / 1000 seconds either way.     *)
(***************************************************************************)
RECURSIVE LeadingDigits(_)
LeadingDigits(s) ==
    IF s # << >> /\ IsDigit(s[1]) THEN 1 + LeadingDigits(Tail(s)) ELSE 0

Drop(s, n) == SubSeq(s, n + 1, Len(s))

DigitVals(s) == [k \in 1..Len(s) |-> DigitVal(s[k])]

\* char::to_ascii_lowercase, on the letters of "infinity" and "nan".
Lower(c) ==
    CASE c = "I" -> "i" [] c = "N" -> "n" [] c = "F" -> "f" [] c = "T" -> "t"
      [] c = "Y" -> "y" [] c = "A" -> "a" [] OTHER -> c

LowerAll(s) == [k \in 1..Len(s) |-> Lower(s[k])]

Invalid == [ok |-> FALSE]

\* digits [ '.' digits ] [ ('e' | 'E') [ '+' | '-' ] digits ], with a digit before
\* or after the point, and the whole text consumed.
ParseDecimal(s) ==
    LET ip    == LeadingDigits(s)
        r1    == Drop(s, ip)
        dot   == r1 # << >> /\ r1[1] = "."
        r2    == IF dot THEN Tail(r1) ELSE r1
        fp    == IF dot THEN LeadingDigits(r2) ELSE 0
        r3    == Drop(r2, fp)
        mant  == DigitVals(SubSeq(s, 1, ip)) \o DigitVals(SubSeq(r2, 1, fp))
        hasE  == r3 # << >> /\ r3[1] \in { "e", "E" }
        r4    == IF hasE THEN Tail(r3) ELSE r3
        esign == hasE /\ r4 # << >> /\ r4[1] \in { "+", "-" }
        r5    == IF esign THEN Tail(r4) ELSE r4
        ed    == LeadingDigits(r5)
    IN  IF ip + fp = 0 THEN Invalid
        ELSE IF r3 = << >>
             THEN [ok |-> TRUE, cls |-> "fin", mant |-> mant, exp |-> -fp]
        ELSE IF hasE /\ ed >= 1 /\ ed = Len(r5)
             THEN [ok |-> TRUE, cls |-> "fin", mant |-> mant,
                   exp |-> (IF esign /\ r4[1] = "-"
                            THEN -DigitsNat(DigitVals(r5))
                            ELSE DigitsNat(DigitVals(r5))) - fp]
        ELSE Invalid

\* "nan", "inf" and "infinity" in any case.
ParseInfNan(s) ==
    LET l == LowerAll(s)
    IN  IF l = << "n", "a", "n" >> THEN [ok |-> TRUE, cls |-> "nan"]
        ELSE IF l = << "i", "n", "f" >> \/ l = << "i", "n", "f", "i", "n", "i", "t", "y" >>
             THEN [ok |-> TRUE, cls |-> "inf"]
        ELSE Invalid

\* <f64 as FromStr>::from_str: an optional sign, then a decimal or inf/nan.
ParseF64(s) ==
    LET signed == s # << >> /\ s[1] \in { "+", "-" }
        body   == IF signed THEN Tail(s) ELSE s
        d      == ParseDecimal(body)
        r      == IF d.ok THEN d ELSE ParseInfNan(body)
    IN  IF r.ok THEN r @@ [neg |-> signed /\ s[1] = "-"] ELSE Invalid

TWO52 == Pow2(52)

TWO53 == Pow2(53)

TWO63 == Pow2(63)

\* n - 1, for n > 0
RECURSIVE DecFrom(_)
DecFrom(ds) ==
    IF ds[Len(ds)] > 0 THEN [ds EXCEPT ![Len(ds)] = @ - 1]
    ELSE Append(DecFrom(SubSeq(ds, 1, Len(ds) - 1)), 9)

BigDec(ds) == Strip(DecFrom(ds))

\* i64::MAX
I64_MAX == BigDec(TWO63)

\* i64::MAX / 1000, the most seconds a Duration holds
DURATION_MAX_SECS == SubSeq(I64_MAX, 1, Len(I64_MAX) - 3)

\* Round n + g/2 + (st: a little more) to 53 significant bits, ties to even.
RECURSIVE Round53(_, _, _, _)
Round53(q, g, st, s) ==
    IF BigLeq(TWO53, q)
    THEN Round53(BigHalf(q), BigOdd(q), st \/ g, s + 1)
    ELSE BigMulPow2(IF g /\ (st \/ BigOdd(q)) THEN BigInc(q) ELSE q, s)

\* The whole part of the double nearest to n + 0.F (n a digit sequence, F the
\* digits after the point).
NearestTrunc(n, F) ==
    IF BigLess(n, TWO52)
    THEN IF F # << >>
            /\ BigLeq(BigMulPow2(Complement(F), 54 - BitLen(n)), Pow10(Len(F)))
         THEN BigInc(n)
         ELSE n
    ELSE Round53(n, F # << >> /\ F[1] >= 5,
                 F # << >> /\ (F[1] \notin { 0, 5 } \/ Strip(Tail(F)) # << >>), 0)

\* |f| truncated, for the finite f = mant * 10^exp; 2^63 stands for all of 2^63
\* and above, where the cast saturates.
FiniteMagnitude(mant, exp) ==
    LET m == Strip(mant)
    IN  IF m = << >> THEN << >>
        ELSE IF exp >= 0
             THEN IF Len(m) + exp > 19 THEN TWO63
                  ELSE NearestTrunc(m \o Repeat(0, exp), << >>)
        ELSE IF -exp > Len(mant) THEN << >>
        ELSE NearestTrunc(Strip(SubSeq(mant, 1, Len(mant) + exp)),
                          SubSeq(mant, Len(mant) + exp + 1, Len(mant)))

\* f as i64
AsI64(f) ==
    IF f.cls = "nan" THEN Signed(FALSE, << >>)
    ELSE LET mag == IF f.cls = "inf" THEN TWO63 ELSE FiniteMagnitude(f.mant, f.exp)
         IN  IF BigLess(mag, TWO63) THEN Signed(f.neg, mag)
             ELSE IF f.neg THEN Signed(TRUE, TWO63)
             ELSE Signed(FALSE, I64_MAX)

\* Duration::seconds: a Duration of whole seconds, or a panic when out of bounds.
Duration_seconds(v) ==
    IF BigLess(DURATION_MAX_SECS, v.mag) THEN Panic ELSE Ok(v)

\* read_data.split_whitespace().take(1).collect::<String>()
FirstToken(s) == Flatten(take(split_whitespace(s), 1))

get_uptime(s) ==
    LET f == ParseF64(FirstToken(s))
    IN  IF ~f.ok THEN Err ELSE Duration_seconds(AsI64(f))

\* The function applied to a text.
CallGetUptime ==
    /\ pc = "get_uptime"
    /\ uptime' = get_uptime(read_data)
    /\ pc' = "returned"
    /\ UNCHANGED << args, read_data, kind, elapsed, uptime_str, loadavg_str, buf, i,
                    count, reads, no_users, stdout, exit, io >>


\* The texts get_uptime is studied on, past the exhaustive short ones: a line of
\* /proc/uptime, other spellings a float parse takes, and numbers at the edges
\* of a double's and of a Duration's range.
ExtraUptimeTexts ==
    { << "3", "5", "0", "7", "3", "5", ".", "4", "7", " ", "2", "3", "4", "3", "8", "8", ".", "9", "0", "\n" >>,
      << "3", "7", "2", "5", ".", "5", " ", "1", "2", "3", ".", "4", "5" >>,
      << "3", "7", "2", "5", ".", "5" >>,
      << "\t", "1", "2", " ", "\n" >>,
      << "+", "7" >>,
      << "1", "E", "3" >>,
      << "i", "n", "f" >>,
      << "-", "I", "n", "f", "i", "n", "i", "t", "y" >>,
      << "N", "a", "N" >>,
      << "n", "a", "n", "o" >>,
      << "1", "e", "1", "6" >>,
      << "9", "e", "1", "5" >>,
      << "9", "0", "0", "7", "1", "9", "9", "2", "5", "4", "7", "4", "0", "9", "9", "3" >>,
      << "9", "0", "0", "7", "1", "9", "9", "2", "5", "4", "7", "4", "0", "9", "9", "3", " ", "0" >>,
      << "9", "2", "2", "3", "3", "7", "2", "0", "3", "6", "8", "5", "4", "7", "7", "5" >>,
      << "9", "2", "2", "3", "3", "7", "2", "0", "3", "6", "8", "5", "4", "7", "7", "4" >>,
      << "-", "9", "2", "2", "3", "3", "7", "2", "0", "3", "6", "8", "5", "4", "7", "7", "6" >>,
      << "0", ".", "9", "9", "9", "9", "9", "9", "9", "9", "9", "9", "9", "9", "9", "9", "9", "9", "9" >>,
      << "2", "2", "5", "1", "7", "9", "9", "8", "1", "3", "6", "8", "5", "2", "4", "8", ".", "8" >> }

UptimeAlphabet == { " ", "1", "9", ".", "e", "-", "x" }

UptimeTexts == SeqsUpTo(UptimeAlphabet, MaxLen) \cup ExtraUptimeTexts

InitUptime ==
    /\ pc = "get_uptime"
    /\ read_data \in UptimeTexts
    /\ uptime = NotYet
    /\ kind = None
    /\ elapsed = None
    /\ uptime_str = << >>
    /\ args = << >>
    /\ loadavg_str = NotYet
    /\ buf = << >>
    /\ i = 0
    /\ count = 0
    /\ reads = {}
    /\ no_users = << >>
    /\ stdout = << >>
    /\ io = "none"
    /\ exit = "running"

NextUptime == CallGetUptime

SpecUptime == InitUptime /\ [][NextUptime]_vars

(***************************************************************************)
(* get_loadavg                                                             *)
(***************************************************************************)
CommaSpace == << ",", " " >>

\* The tokens there are joined, none of them required.
get_loadavg_lenient(s) ==
    LET load == take(split_whitespace(s), 3)
    IN  Returned(Flatten([k \in 1..Len(load) |->
                    IF k = 1 THEN load[k] ELSE CommaSpace \o load[k]]))

\* The first three tokens joined by ", "; load[0], load[1] and load[2] are
\* indexed without a check, so fewer than three tokens is a panic.
get_loadavg(s) ==
    LET load == take(split_whitespace(s), 3)
    IN  IF Len(load) < 3 THEN Panic
        ELSE Returned(load[1] \o CommaSpace \o load[2] \o CommaSpace \o load[3])

\* The function applied to a text.
CallGetLoadavg ==
    /\ pc = "get_loadavg"
    /\ loadavg_str' = get_loadavg(read_data)
    /\ pc' = "returned"
    /\ UNCHANGED << args, read_data, uptime, kind, elapsed, uptime_str, buf, i, count,
                    reads, no_users, stdout, exit, io >>

ExtraLoadTexts ==
    { << "0", ".", "1", "5", " ", "0", ".", "2", "0", " ", "0", ".", "1", "0", " ", "2", "/", "3", "0", "0", " ", "1", "2", "3", "4", "\n" >>,
      << "0", ".", "0", "0", " ", "0", ".", "0", "1", " ", "0", ".", "0", "5", " ", "1", "/", "1", "2", "3", " ", "4", "5", "6", "7" >>,
      << "a", " ", "b", " ", "c" >>,
      << "1", ".", "5", "\t", "2", ".", "5", "\n", "3", ".", "5" >> }

LoadAlphabet == { " ", "\n", "0", "x" }

LoadTexts == SeqsUpTo(LoadAlphabet, MaxLoadLen) \cup ExtraLoadTexts

InitLoadavg ==
    /\ pc = "get_loadavg"
    /\ read_data \in LoadTexts
    /\ loadavg_str = NotYet
    /\ uptime = NotYet
    /\ kind = None
    /\ elapsed = None
    /\ uptime_str = << >>
    /\ args = << >>
    /\ buf = << >>
    /\ i = 0
    /\ count = 0
    /\ reads = {}
    /\ no_users = << >>
    /\ stdout = << >>
    /\ io = "none"
    /\ exit = "running"

NextLoadavg == CallGetLoadavg

SpecLoadavg == InitLoadavg /\ [][NextLoadavg]_vars

(***************************************************************************)
(* main.  A failed read leaves its marker where the data would be; a line   *)
(* printed on the standard output is a record appended to stdout.          *)
(***************************************************************************)
\* usage()
UsageText == [what |-> "usage"]

\* println!("ruptime 0.1.0")
VersionText == [what |-> "version"]

\* The options main's match names.
KnownOptions == { "-p", "--pretty", "-h", "--help", "-s", "--since", "-V", "--version" }

ArgValues == KnownOptions \cup { "-x", "" }

\* What /proc/uptime may hold: uptimes under 2^31 seconds (68 years), an empty
\* file, a malformed one and one out of a Duration's range.
MainUptimeTexts ==
    { << "3", "5", "0", "7", "3", "5", ".", "4", "7", " ", "2", "3", "4", "3", "8", "8", ".", "9", "0", "\n" >>,
      << "5", "9", ".", "9", "9", " ", "1", ".", "0" >>,
      << "8", "6", "4", "0", "0" >>,
      << "-", "6", "1" >>,
      << >>,
      << "x", " ", "1" >>,
      << "1", "e", "1", "6" >> }

\* What /proc/loadavg may hold.
MainLoadTexts ==
    { << "0", ".", "1", "5", " ", "0", ".", "2", "0", " ", "0", ".", "1", "0", " ", "2", "/", "3", "0", "0", " ", "1", "2", "3", "4", "\n" >>,
      << "0", ".", "0", "0", " ", "0", ".", "0", "1" >>,
      << >> }

\* What /var/run/utmp may hold: the buffers of at most one full record.
MainBuffers == { b \in Buffers : Len(b) < 2 * UTMP_SIZE }

\* if args.len() > 2 { usage(); return Err(ArgsError) }
CheckArgs ==
    /\ pc = "main"
    /\ IF Len(args) > 1
       THEN /\ stdout' = Append(stdout, UsageText)
            /\ exit' = "err"
            /\ pc' = "exited"
       ELSE /\ pc' = "read_uptime"
            /\ UNCHANGED << stdout, exit, io >>
    /\ UNCHANGED << args, read_data, uptime, kind, elapsed, uptime_str, loadavg_str,
                    buf, i, count, reads, no_users, io >>

\* fs::read_to_string("/proc/uptime")?
ReadUptime ==
    /\ pc = "read_uptime"
    /\ \/ /\ io' = "uptime_read_failed"
          /\ exit' = "err"
          /\ pc' = "exited"
          /\ UNCHANGED read_data
       \/ /\ \E r \in MainUptimeTexts : read_data' = r
          /\ io' = "ok"
          /\ pc' = "parse_uptime"
          /\ UNCHANGED exit
    /\ UNCHANGED << args, uptime, kind, elapsed, uptime_str, loadavg_str, buf, i,
                    count, reads, no_users, stdout >>

\* let uptime = get_uptime(..)?;
ParseUptime ==
    /\ pc = "parse_uptime"
    /\ uptime' = get_uptime(read_data)
    /\ IF uptime'.tag = "Ok"
       THEN exit' = exit /\ pc' = "dispatch"
       ELSE exit' = (IF uptime'.tag = "Err" THEN "err" ELSE "panic") /\ pc' = "exited"
    /\ UNCHANGED << args, read_data, kind, elapsed, uptime_str, loadavg_str, buf, i,
                    count, reads, no_users, stdout, io >>

\* None => the uptime phrase is built, then /proc/loadavg is read
DispatchNone ==
    /\ pc = "dispatch"
    /\ args = << >>
    /\ kind' = Normal
    /\ elapsed' = Locals(uptime)
    /\ uptime_str' = build_uptime_string(uptime, Normal)
    /\ pc' = "read_loadavg"
    /\ UNCHANGED << args, read_data, uptime, loadavg_str, buf, i, count, reads,
                    no_users, stdout, exit, io >>

\* "-p" | "--pretty" => println!("up {}", uptime_str)
DispatchPretty ==
    /\ pc = "dispatch"
    /\ args # << >>
    /\ args[1] \in { "-p", "--pretty" }
    /\ kind' = Pretty
    /\ elapsed' = Locals(uptime)
    /\ uptime_str' = build_uptime_string(uptime, Pretty)
    /\ stdout' = Append(stdout, [what |-> "pretty",
                                 text |-> << "u", "p", " " >> \o uptime_str'])
    /\ exit' = "ok"
    /\ pc' = "exited"
    /\ UNCHANGED << args, read_data, uptime, loadavg_str, buf, i, count, reads,
                    no_users, io >>

\* "-h" | "--help" => usage()
DispatchHelp ==
    /\ pc = "dispatch"
    /\ args # << >>
    /\ args[1] \in { "-h", "--help" }
    /\ stdout' = Append(stdout, UsageText)
    /\ exit' = "ok"
    /\ pc' = "exited"
    /\ UNCHANGED << args, read_data, uptime, kind, elapsed, uptime_str, loadavg_str,
                    buf, i, count, reads, no_users, io >>

\* "-s" | "--since" => println!("{}", (local - uptime).format(..)); the uptimes
\* of MainUptimeTexts keep local - uptime within chrono's range of dates.
DispatchSince ==
    /\ pc = "dispatch"
    /\ args # << >>
    /\ args[1] \in { "-s", "--since" }
    /\ stdout' = Append(stdout, [what |-> "since", back |-> num_seconds(uptime)])
    /\ exit' = "ok"
    /\ pc' = "exited"
    /\ UNCHANGED << args, read_data, uptime, kind, elapsed, uptime_str, loadavg_str,
                    buf, i, count, reads, no_users, io >>

\* "-V" | "--version" => println!("ruptime 0.1.0")
DispatchVersion ==
    /\ pc = "dispatch"
    /\ args # << >>
    /\ args[1] \in { "-V", "--version" }
    /\ stdout' = Append(stdout, VersionText)
    /\ exit' = "ok"
    /\ pc' = "exited"
    /\ UNCHANGED << args, read_data, uptime, kind, elapsed, uptime_str, loadavg_str,
                    buf, i, count, reads, no_users, io >>

\* _ => { usage(); return Err(ArgsError) }
DispatchOther ==
    /\ pc = "dispatch"
    /\ args # << >>
    /\ args[1] \notin KnownOptions
    /\ stdout' = Append(stdout, UsageText)
    /\ exit' = "err"
    /\ pc' = "exited"
    /\ UNCHANGED << args, read_data, uptime, kind, elapsed, uptime_str, loadavg_str,
                    buf, i, count, reads, no_users, io >>

\* let loadavg_str = get_loadavg(fs::read_to_string("/proc/loadavg")?);
ReadLoadavg ==
    /\ pc = "read_loadavg"
    /\ \/ /\ io' = "loadavg_read_failed"
          /\ exit' = "err"
          /\ pc' = "exited"
          /\ UNCHANGED << read_data, loadavg_str >>
       \/ /\ \E r \in MainLoadTexts : read_data' = r
          /\ io' = "ok"
          /\ loadavg_str' = get_loadavg(read_data')
          /\ IF loadavg_str'.tag = "Panic"
             THEN exit' = "panic" /\ pc' = "exited"
             ELSE exit' = exit /\ pc' = "open_utmp"
    /\ UNCHANGED << args, uptime, kind, elapsed, uptime_str, buf, i, count, reads,
                    no_users, stdout >>

\* let mut f = fs::File::open("/var/run/utmp")?;
OpenUtmp ==
    /\ pc = "open_utmp"
    /\ \/ /\ io' = "utmp_open_failed"
          /\ exit' = "err"
          /\ pc' = "exited"
       \/ /\ io' = "ok"
          /\ pc' = "read_utmp"
          /\ UNCHANGED exit
    /\ UNCHANGED << args, read_data, uptime, kind, elapsed, uptime_str, loadavg_str,
                    buf, i, count, reads, no_users, stdout >>

\* f.read_to_end(&mut buf)?; then get_no_users(&buf) is entered
ReadUtmp ==
    /\ pc = "read_utmp"
    /\ \/ /\ io' = "utmp_read_failed"
          /\ exit' = "err"
          /\ pc' = "exited"
          /\ UNCHANGED buf
       \/ /\ \E r \in MainBuffers : buf' = r
          /\ io' = "ok"
          /\ pc' = "users_loop"
          /\ UNCHANGED exit
    /\ i' = 0
    /\ count' = 0
    /\ reads' = {}
    /\ UNCHANGED << args, read_data, uptime, kind, elapsed, uptime_str, loadavg_str,
                    no_users, stdout >>

\* println!(" {} up {}, {}, load average: {}", ..): the one line, whole (the
\* time of day in it, taken from the clock, is left out)
PrintStatus ==
    /\ pc = "print"
    /\ stdout' = Append(stdout, [what |-> "status", up |-> uptime_str,
                                 users |-> no_users, load |-> loadavg_str.str])
    /\ exit' = "ok"
    /\ pc' = "exited"
    /\ UNCHANGED << args, read_data, uptime, kind, elapsed, uptime_str, loadavg_str,
                    buf, i, count, reads, no_users, io >>

Init ==
    /\ pc = "main"
    /\ args \in SeqsUpTo(ArgValues, MaxArgs)
    /\ read_data = << >>
    /\ uptime = NotYet
    /\ kind = None
    /\ elapsed = None
    /\ uptime_str = << >>
    /\ loadavg_str = NotYet
    /\ buf = << >>
    /\ i = 0
    /\ count = 0
    /\ reads = {}
    /\ no_users = << >>
    /\ stdout = << >>
    /\ io = "none"
    /\ exit = "running"

Next ==
    \/ CheckArgs
    \/ ReadUptime
    \/ ParseUptime
    \/ DispatchNone
    \/ DispatchPretty
    \/ DispatchHelp
    \/ DispatchSince
    \/ DispatchVersion
    \/ DispatchOther
    \/ ReadLoadavg
    \/ OpenUtmp
    \/ ReadUtmp
    \/ LoopStep
    \/ LoopExit
    \/ PrintStatus

Spec == Init /\ [][Next]_vars

(***************************************************************************)
(* The claims.                                                             *)
(***************************************************************************)
\* The number of full records of b whose first byte is 7.
ActiveRecords(b) ==
    Cardinality({ k \in 0..((Len(b) \div 384) - 1) : b[k * 384 + 1] = 7 })

\* The tokens of a text, by where they are: a token starts at a non-whitespace
\* character that has none before it, and ends at one that has none after it.
TokenStarts(t) ==
    { p \in 1..Len(t) : ~IsWhitespace(t[p]) /\ (p = 1 \/ IsWhitespace(t[p - 1])) }

TokenEnds(t) ==
    { p \in 1..Len(t) : ~IsWhitespace(t[p]) /\ (p = Len(t) \/ IsWhitespace(t[p + 1])) }

Nth(S, n) == CHOOSE p \in S : Cardinality({ q \in S : q < p }) = n - 1

Token(t, n) == SubSeq(t, Nth(TokenStarts(t), n), Nth(TokenEnds(t), n))

TokenCount(t) == Cardinality(TokenStarts(t))

\* C1: for every buffer, get_no_users renders "N user" when the number N of
\* active session records is exactly 1 and "N users" for every other N, 0
\* included.
C1_SingularOnlyForOne ==
    pc = "print" =>
        no_users = ToDecNat(ActiveRecords(buf))
                      \o (IF ActiveRecords(buf) = 1 THEN << " ", "u", "s", "e", "r" >> ELSE << " ", "u", "s", "e", "r", "s" >>)

\* C2: for a buffer of any length L, the count get_no_users produces is the
\* number of indices k in 0 .. floor(L/384)-1 with buf[k*384] = 7, whatever the
\* bytes of a trailing partial record and the bytes at other offsets are, and
\* no index read is L or more: the indices read are exactly the k*384.
C2_CountsFullRecordsOnly ==
    /\ exit # "panic"
    /\ \A r \in reads : r >= 0 /\ r < Len(buf)
    /\ pc = "print" =>
          /\ count = ActiveRecords(buf)
          /\ SubSeq(no_users, 1, Len(ToDecNat(count)) + 1)
                = ToDecNat(ActiveRecords(buf)) \o << " " >>
          /\ reads = { k * 384 : k \in 0..((Len(buf) \div 384) - 1) }

\* Two full records and 16 bytes more; the first record is active, and the 7s
\* in the rest of it, in the second record's filler and at the head of the
\* trailing bytes are not counted.
C2_Witness ==
    /\ pc = "print"
    /\ Len(buf) = 2 * 384 + 16
    /\ buf[1] = 7 /\ buf[2] = 7
    /\ buf[385] = 0 /\ buf[386] = 7
    /\ buf[769] = 7
    /\ count = 1

\* C3: for every total_seconds >= 0 the days, hours and minutes of
\* build_uptime_string are floor(total/86400), floor((total mod 86400)/3600)
\* and floor((total mod 3600)/60); hours is in 0..23, minutes in 0..59, and
\* days*86400 + hours*3600 + minutes*60 <= total
\*     < days*86400 + hours*3600 + (minutes+1)*60.
C3_Decomposition ==
    pc = "returned" =>
        LET total == ToInt(uptime.secs)
            d == elapsed.days
            h == elapsed.hours
            m == elapsed.minutes
        IN  total >= 0 =>
              /\ d = total \div 86400
              /\ h = (total % 86400) \div 3600
              /\ m = (total % 3600) \div 60
              /\ h \in 0..23
              /\ m \in 0..59
              /\ d * 86400 + h * 3600 + m * 60 <= total
              /\ total < d * 86400 + h * 3600 + (m + 1) * 60

\* 2 days, 23:59:59.
C3_Witness ==
    /\ pc = "returned"
    /\ ToInt(uptime.secs) = 2 * 86400 + 23 * 3600 + 59 * 60 + 59
    /\ elapsed = [days |-> 2, hours |-> 23, minutes |-> 59]

\* A number under 100 in two digits.
TwoDigits(n) == << DigitChars[(n \div 10) + 1], DigitChars[(n % 10) + 1] >>

\* The phrase C4 states, with the numbers written by ToDecNat.
ClaimedPhrase(d, h, m, k) ==
    (IF d = 0 THEN << >>
     ELSE IF d = 1 THEN ToDecNat(d) \o << " ", "d", "a", "y", ",", " " >>
     ELSE ToDecNat(d) \o << " ", "d", "a", "y", "s", ",", " " >>)
    \o (IF k = "Normal"
        THEN IF h = 0 THEN ToDecNat(m) \o << " ", "m", "i", "n" >>
             ELSE ToDecNat(h) \o << ":" >> \o TwoDigits(m)
        ELSE IF h = 0 THEN ToDecNat(m) \o << " ", "m", "i", "n", "u", "t", "e", "s" >>
             ELSE ToDecNat(h) \o << " ", "h", "o", "u", "r", "s", ",", " " >> \o ToDecNat(m) \o << " ", "m", "i", "n", "u", "t", "e", "s" >>)

\* C4: for days >= 0, hours in 0..23 and minutes in 0..59, build_uptime_string
\* returns the prefix "<days> day, " when days = 1, "<days> days, " when
\* days > 1 and none when days = 0, followed in Normal mode by "<minutes> min"
\* when hours = 0 and else "<hours>:<minutes in two digits>", and in Pretty mode
\* by "<minutes> minutes" when hours = 0 and else
\* "<hours> hours, <minutes> minutes".
C4_Phrase ==
    pc = "returned" =>
        /\ elapsed.days >= 0 /\ elapsed.hours \in 0..23 /\ elapsed.minutes \in 0..59
        /\ uptime_str = ClaimedPhrase(elapsed.days, elapsed.hours, elapsed.minutes, kind)
        /\ (ToInt(uptime.secs) = 300 /\ kind = "Normal") => uptime_str = << "5", " ", "m", "i", "n" >>
        /\ (ToInt(uptime.secs) = 86400 /\ kind = "Normal") => uptime_str = << "1", " ", "d", "a", "y", ",", " ", "0", " ", "m", "i", "n" >>
        /\ (ToInt(uptime.secs) = 2 * 86400 + 3 * 3600 + 7 * 60 /\ kind = "Pretty")
              => uptime_str = << "2", " ", "d", "a", "y", "s", ",", " ", "3", " ", "h", "o", "u", "r", "s", ",", " ", "7", " ", "m", "i", "n", "u", "t", "e", "s" >>

\* One day, one hour and five minutes in Normal mode: the singular prefix and
\* the padded minutes.
C4_Witness ==
    /\ pc = "returned"
    /\ kind = "Normal"
    /\ elapsed = [days |-> 1, hours |-> 1, minutes |-> 5]
    /\ uptime_str = << "1", " ", "d", "a", "y", ",", " ", "1", ":", "0", "5" >>

\* C5: get_uptime returns an error, and no Duration, exactly when its input has
\* no whitespace-delimited token or its first token is not a valid number; for
\* every input whose first token is a valid number it returns a Duration.
C5_ErrorExactlyWhenNoNumber ==
    pc = "returned" =>
        LET valid == TokenCount(read_data) > 0 /\ ParseF64(Token(read_data, 1)).ok
        IN  /\ (uptime.tag = "Err") <=> ~valid
            /\ valid => uptime.tag = "Ok"

\* The whole part of mant * 10^exp, digit by digit.
ExactTrunc(mant, exp) ==
    IF Strip(mant) = << >> THEN << >>
    ELSE IF exp >= 0 THEN Strip(mant) \o Repeat(0, exp)
    ELSE IF -exp >= Len(mant) THEN << >>
    ELSE Strip(SubSeq(mant, 1, Len(mant) + exp))

\* What may follow the first token.
Followers == { << >>, << " " >>, << " ", "1", "2", "3", ".", "4", "5" >>, << "\n", "x" >> }

\* C6: for every input whose first token is a valid decimal number, the
\* Duration get_uptime returns is that token's value truncated toward zero to
\* whole seconds, the same for any two inputs that share the first token.
C6_TruncatedFirstToken ==
    pc = "returned" =>
        LET f == IF TokenCount(read_data) > 0 THEN ParseF64(Token(read_data, 1))
                 ELSE Invalid
        IN  (f.ok /\ f.cls = "fin") =>
              /\ uptime = Ok(Signed(f.neg, ExactTrunc(f.mant, f.exp)))
              /\ \A w \in Followers :
                    get_uptime(Token(read_data, 1) \o w) = uptime

\* A text with one more whitespace character beside the whitespace it has (or
\* at an end), and a text with more tokens after the third.
MoreWhitespace(t) ==
    { SubSeq(t, 1, p) \o << w >> \o SubSeq(t, p + 1, Len(t)) :
        p \in { q \in 0..Len(t) :
                  \/ q = 0
                  \/ q = Len(t)
                  \/ IsWhitespace(t[q])
                  \/ IsWhitespace(t[q + 1]) },
        w \in { " ", "\n", "\t" } }

MoreTokens(t) == { t \o w : w \in { << " ", "9" >>, << "\n", "2", "/", "3", "0", "0", " ", "1", "2", "3", "4", "\n" >> } }

\* C7: for every text with at least three whitespace-delimited tokens,
\* get_loadavg returns the first three tokens unchanged and in their order as
\* "t1, t2, t3", whatever the fourth and later tokens and the amount of
\* whitespace between tokens are.
C7_FirstThreeVerbatim ==
    (pc = "returned" /\ TokenCount(read_data) >= 3) =>
        /\ loadavg_str.tag = "Ok"
        /\ loadavg_str.str = Token(read_data, 1) \o << ",", " " >> \o Token(read_data, 2)
                                \o << ",", " " >> \o Token(read_data, 3)
        /\ \A v \in MoreWhitespace(read_data) \cup MoreTokens(read_data) :
              get_loadavg(v) = loadavg_str

\* A line of /proc/loadavg.
C7_Witness ==
    /\ pc = "returned"
    /\ read_data = << "0", ".", "1", "5", " ", "0", ".", "2", "0", " ", "0", ".", "1", "0", " ", "2", "/", "3", "0", "0", " ", "1", "2", "3", "4", "\n" >>
    /\ loadavg_str = Returned(<< "0", ".", "1", "5", ",", " ", "0", ".", "2", "0", ",", " ", "0", ".", "1", "0" >>)

\* C8: every invocation of main with more than one argument, or with one
\* argument that is none of the eight options, prints the usage text and ends
\* with a non-zero exit, for every content of the uptime source.
C8_BadArgumentsGiveUsage ==
    (pc = "exited"
        /\ (Len(args) > 1
              \/ (Len(args) = 1
                    /\ args[1] \notin { "-p", "--pretty", "-h", "--help", "-s",
                                        "--since", "-V", "--version" })))
        => (stdout = << [what |-> "usage"] >> /\ exit \in { "err", "panic" })

\* C9: an invocation of main with the single argument -h or --help prints the
\* usage text, with -V or --version the version string, and ends with a zero
\* exit, for every content of the uptime source, an unreadable or malformed
\* one included.
C9_HelpAndVersionSucceed ==
    (pc = "exited" /\ Len(args) = 1) =>
        /\ args[1] \in { "-h", "--help" }
              => (stdout = << [what |-> "usage"] >> /\ exit = "ok")
        /\ args[1] \in { "-V", "--version" }
              => (stdout = << [what |-> "version"] >> /\ exit = "ok")

\* A failure of the invocation without arguments: a read or an open that
\* failed, an uptime that did not parse, or a load average text (read_data,
\* once get_loadavg has run) of fewer than three tokens.
Failed ==
    \/ io \in { "uptime_read_failed", "loadavg_read_failed", "utmp_open_failed",
                "utmp_read_failed" }
    \/ uptime.tag \in { "Err", "Panic" }
    \/ loadavg_str.tag # "None" /\ TokenCount(read_data) < 3

\* C10: in an invocation of main with no argument, every failure ends the
\* invocation with a non-zero outcome before anything is printed; the status
\* line is printed only after all inputs were read and parsed, and whole.
C10_NothingPrintedOnFailure ==
    args = << >> =>
        /\ Failed => (pc = "exited" /\ exit \in { "err", "panic" } /\ stdout = << >>)
        /\ exit # "ok" => stdout = << >>
        /\ exit = "ok" =>
              /\ ~Failed
              /\ uptime.tag = "Ok"
              /\ loadavg_str.tag = "Ok"
              /\ pc = "exited"
              /\ stdout = << [what |-> "status", up |-> uptime_str,
                              users |-> no_users, load |-> loadavg_str.str] >>
              /\ uptime_str # << >> /\ no_users # << >> /\ loadavg_str.str # << >>

\* The uptime was read and parsed, the load average text has two tokens.
C10_Witness ==
    /\ args = << >>
    /\ pc = "exited"
    /\ uptime.tag = "Ok"
    /\ uptime_str = << "4", " ", "d", "a", "y", "s", ",", " ", "1", ":", "2", "5" >>
    /\ read_data = << "0", ".", "0", "0", " ", "0", ".", "0", "1" >>
    /\ exit = "panic"
    /\ stdout = << >>

=============================================================================
